---- MODULE Spec2Model ----
(***************************************************************************)
(* Model of the many-ledger module (many-ledger/src/module.rs), the ABCI   *)
(* commit of its storage (many-ledger/src/storage/abci.rs) and the ledger  *)
(* types (omni-ledger/src/utils.rs).                                       *)
(*                                                                         *)
(* LedgerModuleImpl owns one LedgerStorage.  The storage keeps a           *)
(* Merkleized key-value store (kv: the live tree, committed: the tree as   *)
(* of the last backend commit) and in-memory fields: latest_tid,           *)
(* current_time, current_hash and active_migrations.  ret is the value the *)
(* last handler returned, with the arguments it was called with.           *)
(*                                                                         *)
(* The root hash of the backend is a pure, collision-free function of the  *)
(* committed key-value contents; it is written as those contents.          *)
(***************************************************************************)
EXTENDS Integers, Sequences, FiniteSets, TLC

VARIABLES kv, committed, latest_tid, current_time, current_hash,
          active_migrations, ret

vars == <<kv, committed, latest_tid, current_time, current_hash,
          active_migrations, ret>>

(***************************************************************************)
(* Bounds of the model.                                                    *)
(***************************************************************************)
MaxHeight == 2
MaxTx == 2
MaxAmount == 1
MaxStores == 5

(***************************************************************************)
(* Domain values.                                                          *)
(***************************************************************************)
Identity == {"a1", "a2", "anon"}

is_public_key(address) == address # "anon"

RegisteredSymbols == {"FBT"}

Amounts == 0..MaxAmount

None == <<>>

Some(x) == <<x>>

Unwrap(o) == o[1]

InitialBalances == { (<<"a1", "FBT">> :> 2) @@ (<<"a2", "FBT">> :> 1) }

(***************************************************************************)
(* TokenAmount (omni-ledger/src/utils.rs).                                 *)
(***************************************************************************)
add_assign(self, rhs) == self + rhs

sub_assign_keep(self, rhs) == self

sub_assign_distance(self, rhs) == IF self <= rhs THEN rhs - self ELSE self - rhs

sub_assign(self, rhs) == IF self <= rhs THEN 0 ELSE self - rhs

(***************************************************************************)
(* Event (transaction) ids.  An id is a 64-bit number whose upper half     *)
(* holds a block height; it is written here as its two halves, hi and lo,  *)
(* so that height << HEIGHT_EVENTID_SHIFT is [hi |-> height, lo |-> 0] and *)
(* id >> HEIGHT_EVENTID_SHIFT is id.hi.                                    *)
(***************************************************************************)
ShiftLeft(height) == [hi |-> height, lo |-> 0]

ShiftRight(id) == id.hi

EventIdNext(id) == [hi |-> id.hi, lo |-> id.lo + 1]

EventIdLess(a, b) == a.hi < b.hi \/ (a.hi = b.hi /\ a.lo < b.lo)

(***************************************************************************)
(* Persistent store: the key spaces of the Merkleized store.               *)
(***************************************************************************)
EmptyMap == [x \in {} |-> 0]

Put(map, key, value) == [k \in (DOMAIN map) \cup {key} |->
                            IF k = key THEN value ELSE map[k]]

Delete(map, key) == [k \in (DOMAIN map) \ {key} |-> map[k]]

root_hash(store) == store

get_height(store) == store.height

nb_transactions(store) == store.nb_transactions

get_balance(store, id, symbol) ==
    IF <<id, symbol>> \in DOMAIN store.balances
    THEN store.balances[<<id, symbol>>] ELSE 0

hash == IF current_hash # None THEN Unwrap(current_hash) ELSE root_hash(committed)

(***************************************************************************)
(* The explored histories: up to MaxTx transactions, MaxHeight blocks and  *)
(* MaxStores stored phrases; a history with one stored phrase has at most  *)
(* one transaction and one block, one with more stored phrases has no      *)
(* transaction and at most one block.                                      *)
(***************************************************************************)
InBounds(txs, height, phrases) ==
    /\ txs <= MaxTx
    /\ height <= MaxHeight
    /\ phrases <= MaxStores
    /\ \/ phrases = 0
       \/ phrases <= 1 /\ txs <= 1 /\ height <= 1
       \/ txs = 0 /\ height <= 1

NbPhrases == Cardinality(DOMAIN kv.phrases)

(***************************************************************************)
(* Results of the handlers.                                                *)
(***************************************************************************)
Ok(op, args, val) == [op |-> op, args |-> args, err |-> "", val |-> val]

Err(op, args, err) == [op |-> op, args |-> args, err |-> err, val |-> <<>>]

(***************************************************************************)
(* LedgerStorage::new: genesis.                                            *)
(***************************************************************************)
Genesis(initial) ==
    [balances |-> [k \in { x \in DOMAIN initial : initial[x] # 0 } |-> initial[k]],
     txs |-> EmptyMap, nb_transactions |-> 0,
     height |-> 0, phrases |-> EmptyMap, addrs |-> EmptyMap,
     migrations |-> {}, attributes |-> EmptyMap]

Init ==
    \E initial \in InitialBalances :
        /\ kv = Genesis(initial)
        /\ committed = Genesis(initial)
        /\ latest_tid = ShiftLeft(0)
        /\ current_time = None
        /\ current_hash = None
        /\ active_migrations = {}
        /\ ret = Ok("new", <<>>, <<>>)

(***************************************************************************)
(* LedgerStorage::send and add_transaction.                                *)
(***************************************************************************)
add_transaction(store, id, content) ==
    [store EXCEPT
        !.txs = Put(store.txs, id,
                    [id |-> id, time |-> current_time, content |-> content]),
        !.nb_transactions = store.nb_transactions + 1]

storage_send_error(store, from, to, symbol, amount) ==
    IF symbol \notin RegisteredSymbols THEN "UnknownSymbol"
    ELSE IF get_balance(store, from, symbol) < amount THEN "InsufficientFunds"
    ELSE ""

storage_send(store, from, to, symbol, amount) ==
    LET amount_from == sub_assign(get_balance(store, from, symbol), amount)
        b1 == Put(store.balances, <<from, symbol>>, amount_from)
        s1 == [store EXCEPT !.balances = b1]
        amount_to == add_assign(get_balance(s1, to, symbol), amount)
        b2 == Put(b1, <<to, symbol>>, amount_to)
        s2 == [store EXCEPT !.balances = b2]
        b3 == IF get_balance(s2, from, symbol) = 0
              THEN Delete(b2, <<from, symbol>>) ELSE b2
        s3 == [store EXCEPT !.balances = b3]
    IN add_transaction(s3, EventIdNext(latest_tid),
           [kind |-> "Send", from |-> from, to |-> to,
            symbol |-> symbol, amount |-> amount])

(***************************************************************************)
(* LedgerModuleImpl::send (ledger.send).                                   *)
(***************************************************************************)
send_from(sender, args) ==
    IF args.from # None THEN Unwrap(args.from) ELSE sender

send_result_no_check(sender, from, storage_result) == storage_result

send_result_swallow(sender, from, storage_result) ==
    IF from # sender THEN "Unauthorized" ELSE ""

send_result(sender, from, storage_result) ==
    IF from # sender THEN "Unauthorized" ELSE storage_result

send(sender, args) ==
    LET from == send_from(sender, args)
        a == [sender |-> sender, from |-> args.from, to |-> args.to,
              symbol |-> args.symbol, amount |-> args.amount]
        e == send_result(sender, from,
                 storage_send_error(kv, from, args.to, args.symbol, args.amount))
    IN IF e # ""
       THEN /\ ret' = Err("ledger.send", a, e)
            /\ UNCHANGED <<kv, latest_tid>>
       ELSE /\ kv' = storage_send(kv, from, args.to, args.symbol, args.amount)
            /\ latest_tid' = EventIdNext(latest_tid)
            /\ ret' = Ok("ledger.send", a, <<>>)

Senders == {"a1", "a2"}

SendCalls ==
    { [sender |-> s,
       args |-> [from |-> None, to |-> t, symbol |-> "FBT", amount |-> n]] :
        s \in Senders, t \in Senders, n \in Amounts }
    \cup { [sender |-> s,
            args |-> [from |-> Some("a2"), to |-> "a1", symbol |-> "FBT",
                      amount |-> 1]] : s \in Senders }
    \cup { [sender |-> "a1",
            args |-> [from |-> None, to |-> "a2", symbol |-> "XYZ",
                      amount |-> 1]] }

Send ==
    /\ InBounds(kv.nb_transactions + 1, kv.height, NbPhrases)
    /\ \E call \in SendCalls : send(call.sender, call.args)
    /\ UNCHANGED <<committed, current_time, current_hash, active_migrations>>

(***************************************************************************)
(* LedgerModuleImpl::balance (ledger.balance) over                         *)
(* LedgerStorage::get_multiple_balances: zero balances are left out.       *)
(***************************************************************************)
get_multiple_balances(store, id, symbols) ==
    LET wanted == IF symbols = {} THEN RegisteredSymbols ELSE symbols
        held == { s \in wanted : get_balance(store, id, s) # 0 }
    IN [s \in held |-> get_balance(store, id, s)]

balance(sender, args) ==
    LET identity == IF args.account # None THEN Unwrap(args.account) ELSE sender
    IN ret' = Ok("ledger.balance",
                 [sender |-> sender, account |-> args.account,
                  symbols |-> args.symbols],
                 get_multiple_balances(kv, identity, args.symbols))

BalanceCalls ==
    { [sender |-> "a1", args |-> [account |-> None, symbols |-> {}]],
      [sender |-> "a1", args |-> [account |-> Some("a2"), symbols |-> {"FBT"}]] }

Balance ==
    /\ \E call \in BalanceCalls : balance(call.sender, call.args)
    /\ UNCHANGED <<kv, committed, latest_tid, current_time, current_hash,
                   active_migrations>>

(***************************************************************************)
(* LedgerModuleImpl::transactions (ledger.transactions).                   *)
(***************************************************************************)
Transactions ==
    /\ ret' = Ok("ledger.transactions", <<>>,
                 [nb_transactions |-> nb_transactions(kv)])
    /\ UNCHANGED <<kv, committed, latest_tid, current_time, current_hash,
                   active_migrations>>

(***************************************************************************)
(* ManyAbciModuleBackend: begin_block, info, commit.                       *)
(*                                                                         *)
(* info.time is a u64 of seconds since the epoch, written as its top bit   *)
(* and its lower 63 bits.  A SystemTime counts the seconds in a signed     *)
(* 64-bit number, so UNIX_EPOCH.checked_add yields a time, written as its  *)
(* seconds, for the values below 2^63 and None for the others, and         *)
(* begin_block unwraps the result.                                         *)
(***************************************************************************)
Times == { [top |-> 0, rest |-> 1], [top |-> 1, rest |-> 0] }

unix_epoch_checked_add(secs) == IF secs.top = 0 THEN Some(secs.rest) ELSE None

begin_block(info) ==
    IF info.time # None
    THEN LET time == unix_epoch_checked_add(Unwrap(info.time))
         IN IF time = None
            THEN /\ ret' = Err("abci.begin_block", info, "panic")
                 /\ UNCHANGED current_time
            ELSE /\ current_time' = Some(Unwrap(time))
                 /\ ret' = Ok("abci.begin_block", info, <<>>)
    ELSE /\ UNCHANGED current_time
         /\ ret' = Ok("abci.begin_block", info, <<>>)

BeginBlockOpensHeight ==
    /\ \E time \in {None} \cup {Some(t) : t \in Times} :
          begin_block([time |-> time])
    /\ kv' = IF kv.height < MaxHeight
             THEN [kv EXCEPT !.height = kv.height + 1] ELSE kv
    /\ UNCHANGED <<committed, latest_tid, current_hash, active_migrations>>

BeginBlock ==
    /\ \E time \in {None} \cup {Some(t) : t \in Times} :
          begin_block([time |-> time])
    /\ UNCHANGED <<kv, committed, latest_tid, current_hash, active_migrations>>

AbciInfo ==
    /\ ret' = Ok("abci.info", <<>>,
                 [height |-> get_height(kv), hash |-> hash])
    /\ UNCHANGED <<kv, committed, latest_tid, current_time, current_hash,
                   active_migrations>>

(***************************************************************************)
(* LedgerStorage::commit (storage/abci.rs) with inc_height and             *)
(* run_migrations.                                                         *)
(*                                                                         *)
(* inc_height stores height + 1 and hands the height it read back to       *)
(* commit: commit runs the migrations of the block it closes with          *)
(* run_migrations(height + 1, ...), so the `height` it holds is the height *)
(* before the increment, and it is this value that commit shifts into      *)
(* latest_tid.  A migration writes its marker into the store at the block  *)
(* height it is registered for, and sets its attributes from the state of  *)
(* the database it finds, which is the committed one: the height and the   *)
(* number of transactions it read are kept with the marker.                *)
(***************************************************************************)
AllMigrations == { [name |-> "m1", block_height |-> 2] }

inc_height_store(store) == [store EXCEPT !.height = store.height + 1]

inc_height_return(store) == store.height

run_migrations_store(height, all, store) ==
    [store EXCEPT !.migrations =
        store.migrations \cup { m.name : m \in { x \in all : x.block_height = height } }]

run_migrations_active(height, all, active) ==
    active \cup { m.name : m \in { x \in all : x.block_height = height } }

run_migrations_attributes(height, all, attributes, database) ==
    [n \in DOMAIN attributes
            \cup { m.name : m \in { x \in all : x.block_height = height } } |->
        IF n \in { m.name : m \in { x \in all : x.block_height = height } }
        THEN [height |-> database.height,
              nb_transactions |-> database.nb_transactions]
        ELSE attributes[n]]

backend_commit_missing(pending, database) == database

backend_commit(pending, database) == pending

commit_latest_tid(height) == ShiftLeft(height)

commit_hash_first(first_commit, second_commit) == root_hash(first_commit)

commit_hash(first_commit, second_commit) == root_hash(second_commit)

commit ==
    LET height == inc_height_return(kv)
        retain_height == 0
        s1 == inc_height_store(kv)
        c1 == backend_commit(s1, committed)
        s2 == [run_migrations_store(height + 1, AllMigrations, s1) EXCEPT
                  !.attributes = run_migrations_attributes(
                                     height + 1, AllMigrations, s1.attributes, c1)]
        c2 == s2
        h == commit_hash(c1, c2)
    IN /\ kv' = s2
       /\ committed' = c2
       /\ active_migrations' =
              run_migrations_active(height + 1, AllMigrations, active_migrations)
       /\ current_hash' = Some(h)
       /\ latest_tid' = commit_latest_tid(height)
       /\ ret' = Ok("abci.commit", <<>>,
                    [retain_height |-> retain_height, hash |-> h])

Commit ==
    /\ InBounds(kv.nb_transactions, kv.height + 1, NbPhrases)
    /\ commit
    /\ UNCHANGED current_time

(***************************************************************************)
(* Identity store (idstore.store, idstore.getFromRecallPhrase,             *)
(* idstore.getFromAddress).                                                *)
(*                                                                         *)
(* The entropy source of one store call is a function from the attempt     *)
(* number to the entropy it yields on that attempt.  A phrase of W words   *)
(* is the sequence of W words the mnemonic of that entropy spells; equal   *)
(* entropy and equal W give equal phrases, anything else distinct ones.    *)
(***************************************************************************)
MaxTry == 8

Entropies == {1, 2}

EntropySources ==
    { [n \in 1..MaxTry |-> 1] }
    \cup { [n \in 1..MaxTry |-> IF n = 2 THEN e ELSE 1] : e \in Entropies \ {1} }

generate_entropy(source, current_try) == source[current_try]

generate_recall_phrase(W, entropy) == [i \in 1..W |-> entropy]

phrase_for_try_short(current_try, source) ==
    LET entropy == generate_entropy(source, current_try)
    IN CASE current_try \in {1, 2, 3, 4} -> generate_recall_phrase(2, entropy)
         [] current_try \in {5, 6} -> generate_recall_phrase(4, entropy)
         [] current_try \in {7, 8} -> generate_recall_phrase(5, entropy)

phrase_for_try(current_try, source) ==
    LET entropy == generate_entropy(source, current_try)
    IN CASE current_try \in {1, 2} -> generate_recall_phrase(2, entropy)
         [] current_try \in {3, 4} -> generate_recall_phrase(3, entropy)
         [] current_try \in {5, 6} -> generate_recall_phrase(4, entropy)
         [] current_try \in {7, 8} -> generate_recall_phrase(5, entropy)

storage_get_from_recall_phrase_is_ok(store, recall_phrase) ==
    recall_phrase \in DOMAIN store.phrases

storage_get_from_address_is_ok(store, address) ==
    address \in DOMAIN store.addrs

storage_store(store, recall_phrase, address, cred_id) ==
    [store EXCEPT !.phrases = Put(store.phrases, recall_phrase, cred_id),
                  !.addrs = Put(store.addrs, address, cred_id)]

RECURSIVE retry_with_index_skip(_, _, _)
retry_with_index_skip(current_try, source, store) ==
    IF current_try > 8
    THEN [ok |-> FALSE, phrase |-> <<>>, tries |-> current_try - 1]
    ELSE LET recall_phrase == phrase_for_try(current_try, source)
         IN IF storage_get_from_recall_phrase_is_ok(store, recall_phrase)
            THEN retry_with_index_skip(current_try + 2, source, store)
            ELSE [ok |-> TRUE, phrase |-> recall_phrase, tries |-> current_try]

retry_with_index_blind(current_try, source, store) ==
    [ok |-> TRUE, phrase |-> phrase_for_try(current_try, source),
     tries |-> current_try]

RECURSIVE retry_with_index(_, _, _)
retry_with_index(current_try, source, store) ==
    IF current_try > 8
    THEN [ok |-> FALSE, phrase |-> <<>>, tries |-> current_try - 1]
    ELSE LET recall_phrase == phrase_for_try(current_try, source)
         IN IF storage_get_from_recall_phrase_is_ok(store, recall_phrase)
            THEN retry_with_index(current_try + 1, source, store)
            ELSE [ok |-> TRUE, phrase |-> recall_phrase, tries |-> current_try]

cred_id_len_ok_loose(cred_id) == cred_id.len >= 15 /\ cred_id.len <= 1024

cred_id_len_ok(cred_id) == cred_id.len >= 16 /\ cred_id.len <= 1023

store(args, source) ==
    LET a == [address |-> args.address, cred_id |-> args.cred_id,
              source |-> source]
        r == retry_with_index(1, source, kv)
    IN IF ~is_public_key(args.address)
       THEN /\ ret' = Err("idstore.store", a, "InvalidAddress")
            /\ UNCHANGED kv
       ELSE IF ~cred_id_len_ok(args.cred_id)
       THEN /\ ret' = Err("idstore.store", a, "InvalidCredentialId")
            /\ UNCHANGED kv
       ELSE IF ~r.ok
       THEN /\ ret' = [Err("idstore.store", a, "RecallPhraseGenerationFailed")
                          EXCEPT !.val = [tries |-> r.tries]]
            /\ UNCHANGED kv
       ELSE /\ kv' = storage_store(kv, r.phrase, args.address, args.cred_id)
            /\ ret' = Ok("idstore.store", a,
                         [recall_phrase |-> r.phrase, tries |-> r.tries])

StoreCalls ==
    { [args |-> a, source |-> src] :
        a \in { [address |-> "a1", cred_id |-> [len |-> 16]],
                [address |-> "a2", cred_id |-> [len |-> 1023]] },
        src \in EntropySources }
    \cup { [args |-> a, source |-> [n \in 1..MaxTry |-> 1]] :
        a \in { [address |-> "anon", cred_id |-> [len |-> 16]],
                [address |-> "a1", cred_id |-> [len |-> 15]],
                [address |-> "a1", cred_id |-> [len |-> 1024]] } }

Store ==
    /\ NbPhrases < MaxStores
    /\ InBounds(kv.nb_transactions, kv.height, NbPhrases + 1)
    /\ \E call \in StoreCalls : store(call.args, call.source)
    /\ UNCHANGED <<committed, latest_tid, current_time, current_hash,
                   active_migrations>>

get_from_recall_phrase_lost(args) ==
    ret' = Err("idstore.getFromRecallPhrase", args, "NotFound")

get_from_recall_phrase(args) ==
    ret' = IF storage_get_from_recall_phrase_is_ok(kv, args)
           THEN Ok("idstore.getFromRecallPhrase", args, kv.phrases[args])
           ELSE Err("idstore.getFromRecallPhrase", args, "NotFound")

GetFromRecallPhrase ==
    /\ \E args \in {generate_recall_phrase(2, 1), generate_recall_phrase(3, 1)} :
          get_from_recall_phrase(args)
    /\ UNCHANGED <<kv, committed, latest_tid, current_time, current_hash,
                   active_migrations>>

get_from_address(args) ==
    ret' = IF storage_get_from_address_is_ok(kv, args)
           THEN Ok("idstore.getFromAddress", args, kv.addrs[args])
           ELSE Err("idstore.getFromAddress", args, "NotFound")

GetFromAddress ==
    /\ \E args \in {"a1"} : get_from_address(args)
    /\ UNCHANGED <<kv, committed, latest_tid, current_time, current_hash,
                   active_migrations>>

Next ==
    \/ Send
    \/ Balance
    \/ Transactions
    \/ BeginBlock
    \/ AbciInfo
    \/ Commit
    \/ Store
    \/ GetFromRecallPhrase
    \/ GetFromAddress

Spec == Init /\ [][Next]_vars

(***************************************************************************)
(* Canonical codec (omni-ledger/src/utils.rs).                             *)
(*                                                                         *)
(* An encoded value is the sequence of CBOR data items the encoder writes  *)
(* and the decoder reads: unsigned integers, tags, array and map headers   *)
(* (definite, or indefinite and closed by a break), byte strings, text     *)
(* strings and, as one item, an encoded Identity.  A Timestamp is a        *)
(* SystemTime: whole seconds since the epoch and a sub-second part.  A     *)
(* TransactionId is a u64.                                                 *)
(***************************************************************************)
U(n) == [t |-> "uint", v |-> n]

Tag(n) == [t |-> "tag", v |-> n]

Array(n) == [t |-> "array", v |-> n]

ArrayIndef == [t |-> "array_indef", v |-> 0]

Break == [t |-> "break", v |-> 0]

Map(n) == [t |-> "map", v |-> n]

Bytes(b) == [t |-> "bytes", v |-> b]

Text(s) == [t |-> "text", v |-> s]

Id(a) == [t |-> "identity", v |-> a]

TagTimestamp == 1

TagPosBignum == 2

Peek(buf, pos) == IF pos <= Len(buf) THEN buf[pos] ELSE [t |-> "end", v |-> 0]

DecOk(val, pos) == [err |-> "", val |-> val, pos |-> pos]

DecErr(msg) == [err |-> msg, val |-> <<>>, pos |-> 0]

RECURSIVE to_bytes_be(_)
to_bytes_be(n) ==
    IF n < 256 THEN <<n>> ELSE Append(to_bytes_be(n \div 256), n % 256)

RECURSIVE from_bytes_be(_)
from_bytes_be(bytes) ==
    IF bytes = <<>> THEN 0
    ELSE 256 * from_bytes_be(SubSeq(bytes, 1, Len(bytes) - 1)) + bytes[Len(bytes)]

encode_amount(amount) == <<Tag(TagPosBignum), Bytes(to_bytes_be(amount))>>

decode_amount(buf, pos) ==
    IF Peek(buf, pos).t # "tag" THEN DecErr("DecodeError")
    ELSE IF Peek(buf, pos).v # TagPosBignum THEN DecErr("DecodeError")
    ELSE IF Peek(buf, pos + 1).t # "bytes" THEN DecErr("DecodeError")
    ELSE DecOk(from_bytes_be(Peek(buf, pos + 1).v), pos + 2)

encode_timestamp(time) == <<Tag(TagTimestamp), U(time.secs)>>

decode_timestamp(buf, pos) ==
    IF Peek(buf, pos).t # "tag" THEN DecErr("DecodeError")
    ELSE IF Peek(buf, pos).v # TagTimestamp THEN DecErr("DecodeError")
    ELSE IF Peek(buf, pos + 1).t # "uint" THEN DecErr("DecodeError")
    ELSE DecOk([secs |-> Peek(buf, pos + 1).v, nanos |-> 0], pos + 2)

encode_id(id) == <<U(id)>>

decode_id(buf, pos) ==
    IF Peek(buf, pos).t # "uint" THEN DecErr("DecodeError")
    ELSE DecOk(Peek(buf, pos).v, pos + 1)

decode_identity(buf, pos) ==
    IF Peek(buf, pos).t # "identity" THEN DecErr("DecodeError")
    ELSE DecOk(Peek(buf, pos).v, pos + 1)

decode_string(buf, pos) ==
    IF Peek(buf, pos).t # "text" THEN DecErr("DecodeError")
    ELSE DecOk(Peek(buf, pos).v, pos + 1)

KindByte(kind) ==
    CASE kind = "Send" -> 0 [] kind = "Mint" -> 1 [] kind = "Burn" -> 2

encode_kind(kind) == <<U(KindByte(kind))>>

decode_kind(buf, pos) ==
    IF Peek(buf, pos).t # "uint" \/ Peek(buf, pos).v > 255
    THEN DecErr("DecodeError")
    ELSE CASE Peek(buf, pos).v = 0 -> DecOk("Send", pos + 1)
           [] Peek(buf, pos).v = 1 -> DecOk("Mint", pos + 1)
           [] Peek(buf, pos).v = 2 -> DecOk("Burn", pos + 1)
           [] OTHER -> DecErr("DecodeError")

encode_content(content) ==
    IF content.kind = "Send"
    THEN <<Array(5), U(KindByte("Send")), Id(content.from), Id(content.to),
           Text(content.symbol)>> \o encode_amount(content.amount)
    ELSE <<Array(4), U(KindByte(content.kind)), Id(content.account),
           Text(content.symbol)>> \o encode_amount(content.amount)

(* x - y on u64: the difference, or with carry 1 the wrapped difference    *)
(* 2^64 + (x - y).                                                         *)
sub_u64(x, y) == [lo |-> x - y, carry |-> IF x >= y THEN 0 ELSE 1]

content_fields(kind, buf, pos) ==
    IF kind = 0
    THEN LET from == decode_identity(buf, pos)
             to == decode_identity(buf, from.pos)
             symbol == decode_string(buf, to.pos)
             amount == decode_amount(buf, symbol.pos)
         IN IF from.err # "" THEN from
            ELSE IF to.err # "" THEN to
            ELSE IF symbol.err # "" THEN symbol
            ELSE IF amount.err # "" THEN amount
            ELSE DecOk([kind |-> "Send", from |-> from.val, to |-> to.val,
                        symbol |-> symbol.val, amount |-> amount.val],
                       amount.pos)
    ELSE LET account == decode_identity(buf, pos)
             symbol == decode_string(buf, account.pos)
             amount == decode_amount(buf, symbol.pos)
         IN IF account.err # "" THEN account
            ELSE IF symbol.err # "" THEN symbol
            ELSE IF amount.err # "" THEN amount
            ELSE DecOk([kind |-> IF kind = 1 THEN "Mint" ELSE "Burn",
                        account |-> account.val, symbol |-> symbol.val,
                        amount |-> amount.val],
                       amount.pos)

content_len(header, expected) ==
    IF header.t = "array" THEN Some(sub_u64(header.v, expected)) ELSE None

(* overflow_checks: whether the build panics on integer overflow (debug    *)
(* builds do, release builds wrap).                                        *)
decode_content(buf, pos, overflow_checks) ==
    LET header == Peek(buf, pos)
        kind == Peek(buf, pos + 1)
        expected == IF kind.v = 0 THEN 5 ELSE 4
        len == content_len(header, expected)
        fields == content_fields(kind.v, buf, pos + 2)
    IN IF header.t \notin {"array", "array_indef"} THEN DecErr("DecodeError")
       ELSE IF kind.t # "uint" THEN DecErr("DecodeError")
       ELSE IF kind.v > 255 THEN DecErr("DecodeError")
       ELSE IF kind.v \notin {0, 1, 2} THEN DecErr("DecodeError")
       ELSE IF len # None /\ Unwrap(len).carry = 1 /\ overflow_checks
       THEN DecErr("panic")
       ELSE IF fields.err # "" THEN fields
       ELSE IF len = Some(sub_u64(0, 0)) THEN fields
       ELSE IF len = None /\ Peek(buf, fields.pos).t = "break" THEN fields
       ELSE DecErr("DecodeError")

encode_transaction(transaction) ==
    <<Map(3)>> \o <<U(0)>> \o encode_id(transaction.id)
               \o <<U(1)>> \o encode_timestamp(transaction.time)
               \o <<U(2)>> \o encode_content(transaction.content)

RECURSIVE decode_entries(_, _, _, _, _)
decode_entries(buf, pos, remaining, acc, overflow_checks) ==
    IF remaining = 0
    THEN IF DOMAIN acc = {"id", "time", "content"}
         THEN DecOk([id |-> acc["id"], time |-> acc["time"],
                     content |-> acc["content"]], pos)
         ELSE DecErr("DecodeError")
    ELSE LET key == Peek(buf, pos)
             name == CASE key.v = 0 -> "id" [] key.v = 1 -> "time"
                       [] OTHER -> "content"
             value == CASE key.v = 0 -> decode_id(buf, pos + 1)
                        [] key.v = 1 -> decode_timestamp(buf, pos + 1)
                        [] OTHER -> decode_content(buf, pos + 1, overflow_checks)
         IN IF key.t # "uint" THEN DecErr("DecodeError")
            ELSE IF key.v \notin {0, 1, 2} THEN DecErr("DecodeError")
            ELSE IF value.err # "" THEN value
            ELSE decode_entries(buf, value.pos, remaining - 1,
                                Put(acc, name, value.val), overflow_checks)

decode_transaction(buf, overflow_checks) ==
    IF Peek(buf, 1).t # "map" THEN DecErr("DecodeError")
    ELSE decode_entries(buf, 2, Peek(buf, 1).v, EmptyMap, overflow_checks)

(***************************************************************************)
(* The codec on its own: transactions are encoded, buffers are decoded,    *)
(* and what one step produced is fed to the other.  ret holds the last     *)
(* conversion with its input.                                              *)
(***************************************************************************)
CodecAmounts == {0, 1, 255, 256}

CodecTimes == { [secs |-> 1, nanos |-> 0], [secs |-> 2, nanos |-> 0],
                [secs |-> 1, nanos |-> 500] }

CodecContents ==
    { [kind |-> "Send", from |-> "a1", to |-> t, symbol |-> "FBT", amount |-> n] :
        t \in {"a1", "a2"}, n \in CodecAmounts }
    \cup { [kind |-> k, account |-> a, symbol |-> "FBT", amount |-> n] :
        k \in {"Mint", "Burn"}, a \in {"a1", "a2"}, n \in CodecAmounts }

CodecTransactions ==
    { [id |-> i, time |-> time, content |-> c] :
        i \in {1, 2}, time \in CodecTimes, c \in CodecContents }

(* Contents as they may arrive: any declared length up to MaxDeclared or   *)
(* an indefinite length, any kind byte, the fields of the variant (those   *)
(* of Send for an unknown kind), with or without a closing break.          *)
MaxDeclared == 6

ContentHeaders == { Array(n) : n \in 0..MaxDeclared } \cup {ArrayIndef}

KindBytes == {0, 1, 2, 3, 255}

FieldItems(kind) ==
    IF kind \in {1, 2}
    THEN <<Id("a1"), Text("FBT")>> \o encode_amount(1)
    ELSE <<Id("a1"), Id("a2"), Text("FBT")>> \o encode_amount(1)

ContentBuffers ==
    { <<h, U(k)>> \o FieldItems(k) \o closing :
        h \in ContentHeaders, k \in KindBytes, closing \in {<<>>, <<Break>>} }

(* The transaction of id 1 and time 1 around such a content, closed by a   *)
(* break exactly when its length is indefinite.                            *)
TransactionBuffers ==
    { <<Map(3), U(0)>> \o encode_id(1) \o <<U(1)>>
          \o encode_timestamp([secs |-> 1, nanos |-> 0]) \o <<U(2)>> \o c :
        c \in { b \in ContentBuffers :
                    /\ b[1] \in {Array(4), Array(5), ArrayIndef}
                    /\ b[2].v \in {0, 1}
                    /\ (b[1] = ArrayIndef) = (b[Len(b)] = Break) } }

CodecInit ==
    \E initial \in InitialBalances :
        /\ kv = Genesis(initial)
        /\ committed = Genesis(initial)
        /\ latest_tid = ShiftLeft(0)
        /\ current_time = None
        /\ current_hash = None
        /\ active_migrations = {}
        /\ ret = Ok("new", <<>>, <<>>)

EncodeTransaction ==
    /\ \E t \in CodecTransactions
               \cup (IF ret.op = "decode" /\ ret.err = "" THEN {ret.val} ELSE {}) :
          ret' = Ok("encode", t, encode_transaction(t))
    /\ UNCHANGED <<kv, committed, latest_tid, current_time, current_hash,
                   active_migrations>>

DecodeTransaction ==
    /\ \E buf \in TransactionBuffers
                 \cup (IF ret.op = "encode" THEN {ret.val} ELSE {}),
           overflow_checks \in BOOLEAN :
          LET r == decode_transaction(buf, overflow_checks)
          IN ret' = [op |-> "decode",
                     args |-> [buf |-> buf, overflow_checks |-> overflow_checks],
                     err |-> r.err, val |-> r.val]
    /\ UNCHANGED <<kv, committed, latest_tid, current_time, current_hash,
                   active_migrations>>

DecodeContent ==
    /\ \E buf \in ContentBuffers, overflow_checks \in BOOLEAN :
          LET r == decode_content(buf, 1, overflow_checks)
          IN ret' = [op |-> "decode_content",
                     args |-> [buf |-> buf, overflow_checks |-> overflow_checks],
                     err |-> r.err, val |-> r.val]
    /\ UNCHANGED <<kv, committed, latest_tid, current_time, current_hash,
                   active_migrations>>

CodecNext ==
    \/ EncodeTransaction
    \/ DecodeTransaction
    \/ DecodeContent

SpecCodec == CodecInit /\ [][CodecNext]_vars

(***************************************************************************)
(* LedgerModuleImpl::list (ledger.list) with its filters, over             *)
(* LedgerStorage::iter.                                                    *)
(*                                                                         *)
(* The log read by list holds the stored bytes of each transaction under   *)
(* its id.  iter yields the entries whose id is in the range, in id order  *)
(* (ascending by default).  Each entry is decoded when the chain of        *)
(* filters pulls it; take(count) pulls until count items came through or   *)
(* the scan is exhausted, and collect stops at the first error.            *)
(***************************************************************************)
MAXIMUM_TRANSACTION_COUNT == 100

Min(a, b) == IF a < b THEN a ELSE b

list_count_unclamped(count) ==
    IF count # None THEN Unwrap(count) ELSE MAXIMUM_TRANSACTION_COUNT

list_count(count) ==
    IF count # None THEN Min(Unwrap(count), MAXIMUM_TRANSACTION_COUNT)
    ELSE MAXIMUM_TRANSACTION_COUNT

TimeLeq(a, b) == a.secs < b.secs \/ (a.secs = b.secs /\ a.nanos <= b.nanos)

date_range_contains(range, time) ==
    /\ range.lo = None \/ TimeLeq(Unwrap(range.lo), time)
    /\ range.hi = None \/ TimeLeq(time, Unwrap(range.hi))

id_range_contains(range, id) ==
    /\ range.lo = None \/ ~EventIdLess(id, Unwrap(range.lo))
    /\ range.hi = None \/ ~EventIdLess(Unwrap(range.hi), id)

RECURSIVE Ascending(_)
Ascending(ids) ==
    IF ids = {} THEN <<>>
    ELSE LET first == CHOOSE x \in ids : \A y \in ids \ {x} : EventIdLess(x, y)
         IN <<first>> \o Ascending(ids \ {first})

Reverse(seq) == [i \in 1..Len(seq) |-> seq[Len(seq) + 1 - i]]

iter(st, id_range, order) ==
    LET ids == Ascending({ id \in DOMAIN st.txs : id_range_contains(id_range, id) })
        scan == IF order = Some("Descending") THEN Reverse(ids) ELSE ids
    IN [i \in 1..Len(scan) |-> st.txs[scan[i]]]

tx_kind(transaction) == transaction.content.kind

tx_symbol(transaction) == transaction.content.symbol

is_about_payer_only(transaction, id) ==
    IF transaction.content.kind = "Send"
    THEN id = transaction.content.from
    ELSE id = transaction.content.account

is_about(transaction, id) ==
    IF transaction.content.kind = "Send"
    THEN id = transaction.content.from \/ id = transaction.content.to
    ELSE id = transaction.content.account

filter_account(t, account) ==
    IF account = None THEN TRUE
    ELSE IF t.err # "" THEN TRUE
    ELSE \E id \in Unwrap(account) : is_about(t.val, id)

filter_transaction_kind(t, transaction_kind) ==
    IF transaction_kind = None THEN TRUE
    ELSE IF t.err # "" THEN TRUE
    ELSE tx_kind(t.val) \in Unwrap(transaction_kind)

filter_symbol(t, symbols) ==
    IF symbols = None THEN TRUE
    ELSE IF t.err # "" THEN TRUE
    ELSE tx_symbol(t.val) \in Unwrap(symbols)

filter_date(t, range) ==
    IF t.err # "" THEN TRUE
    ELSE date_range_contains(range, t.val.time)

(* iter.take(count).collect::<Result<_, _>>() over the filtered scan: i is *)
(* the next entry of the scan, count what take may still let through.      *)
RECURSIVE take_collect(_, _, _, _, _, _)
take_collect(scan, i, count, filter, overflow_checks, transactions) ==
    IF count = 0 \/ i > Len(scan) THEN [err |-> "", val |-> transactions]
    ELSE LET t == decode_transaction(scan[i], overflow_checks)
         IN IF t.err = "panic" THEN [err |-> "panic", val |-> <<>>]
            ELSE IF ~(/\ filter_account(t, filter.account)
                      /\ filter_transaction_kind(t, filter.kind)
                      /\ filter_symbol(t, filter.symbol)
                      /\ filter_date(t, filter.date_range))
            THEN take_collect(scan, i + 1, count, filter, overflow_checks,
                              transactions)
            ELSE IF t.err # ""
            THEN [err |-> "DeserializationError", val |-> <<>>]
            ELSE take_collect(scan, i + 1, count - 1, filter, overflow_checks,
                              Append(transactions, t.val))

list(args, overflow_checks) ==
    LET count == list_count(args.count)
        a == [count |-> args.count, order |-> args.order,
              filter |-> args.filter, overflow_checks |-> overflow_checks]
        scan == iter(kv, args.filter.id_range, args.order)
        r == take_collect(scan, 1, count, args.filter, overflow_checks, <<>>)
    IN ret' = IF r.err # "" THEN Err("ledger.list", a, r.err)
              ELSE Ok("ledger.list", a,
                      [nb_transactions |-> nb_transactions(kv),
                       transactions |-> r.val])

(***************************************************************************)
(* ledger.list on its own: the ledger is opened on a store whose log holds *)
(* up to MaxLog entries taken from LogPool in any order, or MaxLong - 2 to *)
(* MaxLong sends of which the last may be damaged, and is then queried.    *)
(* An entry of the pool is a transaction as the codec writes it, or one    *)
(* with a damaged content: an unknown kind byte, or a declared length of 4 *)
(* on a Send.  A query leaves the store as it is, so a history makes one   *)
(* query: a second one would be answered from the same store.              *)
(***************************************************************************)
MaxLog == 3

MaxLong == 101

Time(secs) == [secs |-> secs, nanos |-> 0]

LogPool ==
    { [time |-> Time(1), damage |-> "",
       content |-> [kind |-> "Send", from |-> "a1", to |-> "a2",
                    symbol |-> "FBT", amount |-> 1]],
      [time |-> Time(2), damage |-> "",
       content |-> [kind |-> "Send", from |-> "a2", to |-> "a2",
                    symbol |-> "FBT", amount |-> 0]],
      [time |-> Time(2), damage |-> "",
       content |-> [kind |-> "Mint", account |-> "a1", symbol |-> "FBT",
                    amount |-> 1]],
      [time |-> Time(3), damage |-> "",
       content |-> [kind |-> "Burn", account |-> "a2", symbol |-> "XYZ",
                    amount |-> 256]],
      [time |-> Time(1), damage |-> "kind",
       content |-> [kind |-> "Send", from |-> "a1", to |-> "a2",
                    symbol |-> "FBT", amount |-> 1]],
      [time |-> Time(1), damage |-> "length",
       content |-> [kind |-> "Send", from |-> "a1", to |-> "a2",
                    symbol |-> "FBT", amount |-> 1]] }

PlainSend == CHOOSE e \in LogPool : e.damage = "" /\ e.content.kind = "Send"
                                                /\ e.content.to # e.content.from

DamagedSend == CHOOSE e \in LogPool : e.damage = "kind"

StoredBytes(id, entry) ==
    LET buf == encode_transaction([id |-> id.lo, time |-> entry.time,
                                   content |-> entry.content])
    IN CASE entry.damage = "kind" -> [buf EXCEPT ![9] = U(3)]
         [] entry.damage = "length" -> [buf EXCEPT ![8] = Array(4)]
         [] OTHER -> buf

LogOf(entries) ==
    [id \in { [hi |-> 0, lo |-> i] : i \in 1..Len(entries) } |->
        StoredBytes(id, entries[id.lo])]

ListLogs ==
    { LogOf(entries) : entries \in UNION { [1..n -> LogPool] : n \in 0..MaxLog } }
    \cup { LogOf([i \in 1..n |-> IF i = n /\ damaged THEN DamagedSend
                                 ELSE PlainSend]) :
             n \in (MaxLong - 2)..MaxLong, damaged \in BOOLEAN }

ListInit ==
    \E initial \in InitialBalances, log \in ListLogs :
        /\ kv = [Genesis(initial) EXCEPT
                    !.txs = log,
                    !.nb_transactions = Cardinality(DOMAIN log)]
        /\ committed = Genesis(initial)
        /\ latest_tid = [hi |-> 0, lo |-> Cardinality(DOMAIN log)]
        /\ current_time = None
        /\ current_hash = None
        /\ active_migrations = {}
        /\ ret = Ok("new", <<>>, <<>>)

NoRange == [lo |-> None, hi |-> None]

NoFilter == [account |-> None, kind |-> None, symbol |-> None,
             id_range |-> NoRange, date_range |-> NoRange]

ListFilters ==
    { NoFilter,
      [NoFilter EXCEPT !.account = Some({"a1"})],
      [NoFilter EXCEPT !.kind = Some({"Mint", "Burn"})],
      [NoFilter EXCEPT !.symbol = Some({"FBT"})],
      [NoFilter EXCEPT !.date_range = [lo |-> Some(Time(2)), hi |-> Some(Time(2))]],
      [NoFilter EXCEPT !.id_range = [lo |-> Some([hi |-> 0, lo |-> 2]),
                                     hi |-> Some([hi |-> 0, lo |-> 3])]],
      [account |-> Some({"a2", "anon"}), kind |-> Some({"Send"}),
       symbol |-> Some({"FBT"}), id_range |-> NoRange,
       date_range |-> [lo |-> Some(Time(1)), hi |-> None]] }

ListCalls ==
    { [count |-> c, order |-> o, filter |-> f] :
        c \in {None, Some(0), Some(1), Some(2), Some(MaxLong)},
        o \in {None, Some("Descending")},
        f \in ListFilters }
    \cup { [count |-> None, order |-> Some("Ascending"), filter |-> NoFilter] }

List ==
    /\ ret.op = "new"
    /\ \E args \in ListCalls, overflow_checks \in BOOLEAN :
          list(args, overflow_checks)
    /\ UNCHANGED <<kv, committed, latest_tid, current_time, current_hash,
                   active_migrations>>

ListNext == List

SpecList == ListInit /\ [][ListNext]_vars

(***************************************************************************)
(* LedgerModuleImpl::new with an initial state.  hex::encode writes a hash *)
(* in lower-case digits; a text of hex digits is written here as the bytes *)
(* its digits spell and whether the digits are upper case, so that the     *)
(* same bytes spelled in upper case are another text.  Before construction *)
(* there is no store.                                                      *)
(***************************************************************************)
hex_encode(bytes) == [digits |-> bytes, upper |-> FALSE]

hash_matches_any_case(actual, h) == actual.digits = h.digits

hash_matches(actual, h) == actual = h

new_with(state) ==
    LET storage == Genesis(state.initial)
        actual == hex_encode(root_hash(storage))
    IN IF state.hash # None /\ ~hash_matches(actual, Unwrap(state.hash))
       THEN /\ ret' = [Err("new", state, "InvalidInitialState") EXCEPT
                          !.val = [expected |-> Unwrap(state.hash),
                                   actual |-> actual]]
            /\ UNCHANGED <<kv, committed, latest_tid, current_time,
                           current_hash, active_migrations>>
       ELSE /\ kv' = storage
            /\ committed' = storage
            /\ latest_tid' = ShiftLeft(0)
            /\ current_time' = None
            /\ current_hash' = None
            /\ active_migrations' = {}
            /\ ret' = Ok("new", state,
                         [height |-> get_height(storage),
                          hash |-> hex_encode(root_hash(storage))])

NewInitials == [ {<<"a1", "FBT">>, <<"a2", "FBT">>} -> {0, 1, 2} ]

NewHashes ==
    {None}
    \cup { Some([digits |-> root_hash(Genesis(i)), upper |-> u]) :
             i \in NewInitials, u \in BOOLEAN }

NewCalls == { [initial |-> i, hash |-> h] : i \in NewInitials, h \in NewHashes }

NewInit ==
    /\ kv = EmptyMap
    /\ committed = EmptyMap
    /\ latest_tid = ShiftLeft(0)
    /\ current_time = None
    /\ current_hash = None
    /\ active_migrations = {}
    /\ ret = Ok("none", <<>>, <<>>)

New ==
    /\ ret.op = "none"
    /\ \E state \in NewCalls : new_with(state)

NewNext == New

SpecNew == NewInit /\ [][NewNext]_vars

(***************************************************************************)
(* TokenAmount on its own (omni-ledger/src/utils.rs): +=, -= and the       *)
(* codec of an amount.  A TokenAmount is a BigUint, a natural number of    *)
(* any size; the amounts tried lie on both sides of the one-, two- and     *)
(* three-byte boundaries.  The byte strings a decoder may be handed are    *)
(* all strings of up to MaxBytes bytes, the empty one and those that start *)
(* with a zero byte included, after the bignum tag, and a wrong tag and a  *)
(* wrong item besides.                                                     *)
(***************************************************************************)
AmountValues == {0, 1, 2, 255, 256, 257, 65535, 65536, 16777215, 16777216}

MaxBytes == 2

ByteValues == {0, 1, 255}

ByteStrings == UNION { [1..n -> ByteValues] : n \in 0..MaxBytes }

AmountBuffers ==
    { <<Tag(TagPosBignum), Bytes(b)>> : b \in ByteStrings }
    \cup { <<Tag(TagTimestamp), Bytes(<<1>>)>>, <<Tag(TagPosBignum), U(1)>> }

AddAssign ==
    /\ \E a \in AmountValues, b \in AmountValues :
          ret' = Ok("add_assign", [self |-> a, rhs |-> b], add_assign(a, b))
    /\ UNCHANGED <<kv, committed, latest_tid, current_time, current_hash,
                   active_migrations>>

SubAssign ==
    /\ \E a \in AmountValues, b \in AmountValues :
          ret' = Ok("sub_assign", [self |-> a, rhs |-> b], sub_assign(a, b))
    /\ UNCHANGED <<kv, committed, latest_tid, current_time, current_hash,
                   active_migrations>>

EncodeAmount ==
    /\ \E a \in AmountValues
               \cup (IF ret.op = "decode_amount" /\ ret.err = ""
                     THEN {ret.val} ELSE {}) :
          ret' = Ok("encode_amount", a, encode_amount(a))
    /\ UNCHANGED <<kv, committed, latest_tid, current_time, current_hash,
                   active_migrations>>

DecodeAmount ==
    /\ \E buf \in AmountBuffers
                 \cup (IF ret.op = "encode_amount" THEN {ret.val} ELSE {}) :
          LET r == decode_amount(buf, 1)
          IN ret' = [op |-> "decode_amount", args |-> buf,
                     err |-> r.err, val |-> r.val]
    /\ UNCHANGED <<kv, committed, latest_tid, current_time, current_hash,
                   active_migrations>>

AmountNext ==
    \/ AddAssign
    \/ SubAssign
    \/ EncodeAmount
    \/ DecodeAmount

SpecAmount == CodecInit /\ [][AmountNext]_vars

(***************************************************************************)
(* Helpers of the properties.                                              *)
(***************************************************************************)
others == <<committed, current_time, current_hash, active_migrations>>

RECURSIVE SumOver(_, _)
SumOver(map, keys) ==
    IF keys = {} THEN 0
    ELSE LET k == CHOOSE x \in keys : TRUE
         IN map[k] + SumOver(map, keys \ {k})

TotalOf(balances, symbol) ==
    SumOver(balances, { k \in DOMAIN balances : k[2] = symbol })

GenesisBalances == CHOOSE b \in InitialBalances : TRUE

IsSend(r) == r.op = "ledger.send"

SendOk(r) == IsSend(r) /\ r.err = ""

Payer(r) == IF r.args.from # None THEN Unwrap(r.args.from) ELSE r.args.sender

(* What ledger.balance reports for one account and one symbol.             *)
Reported(st, id, symbol) ==
    LET m == get_multiple_balances(st, id, {symbol})
    IN IF symbol \in DOMAIN m THEN m[symbol] ELSE 0

(***************************************************************************)
(* C1: in every reachable state, whatever sends (accepted or rejected,     *)
(* from = to and amount 0 included) and commits happened, the sum of the   *)
(* balances of each symbol over all addresses equals the sum at genesis.   *)
(***************************************************************************)
C1_SumConserved ==
    \A symbol \in RegisteredSymbols :
        /\ TotalOf(kv.balances, symbol) = TotalOf(GenesisBalances, symbol)
        /\ TotalOf(committed.balances, symbol) = TotalOf(GenesisBalances, symbol)

C1_Witness ==
    /\ SendOk(ret)
    /\ ret.args.amount > 0
    /\ kv.nb_transactions = 2
    /\ kv.height >= 1
    /\ kv.balances # GenesisBalances

(***************************************************************************)
(* C2: a ledger.send whose args.from is present and differs from the       *)
(* sender returns Unauthorized and changes nothing of the ledger state;    *)
(* with args.from absent the payer is the sender and the call is never     *)
(* Unauthorized.                                                           *)
(***************************************************************************)
C2_Unauthorized ==
    [][ IsSend(ret') =>
          /\ (ret'.args.from # None /\ Unwrap(ret'.args.from) # ret'.args.sender)
                => /\ ret'.err = "Unauthorized"
                   /\ UNCHANGED <<kv, latest_tid, others>>
          /\ ret'.args.from = None
                => /\ ret'.err # "Unauthorized"
                   /\ ret'.err = "" =>
                        kv'.txs[latest_tid'].content.from = ret'.args.sender
      ]_vars

C2_Witness ==
    /\ IsSend(ret)
    /\ ret.err = "Unauthorized"
    /\ ret.args.from = Some("a2")
    /\ ret.args.sender = "a1"
    /\ kv.nb_transactions > 0
    /\ get_balance(kv, "a2", "FBT") > 0

C4_SendEffect ==
    [][ SendOk(ret') =>
          LET a == Payer(ret')
              b == ret'.args.to
              x == ret'.args.amount
              symbol == ret'.args.symbol
              new == DOMAIN kv'.txs \ DOMAIN kv.txs
          IN /\ \A c \in Identity :
                    Reported(kv', c, symbol) =
                        Reported(kv, c, symbol)
                            - (IF c = a THEN x ELSE 0)
                            + (IF c = b THEN x ELSE 0)
             /\ nb_transactions(kv') = nb_transactions(kv) + 1
             /\ Cardinality(new) = 1
             /\ \A id \in DOMAIN kv.txs : kv'.txs[id] = kv.txs[id]
             /\ \A id \in new :
                    kv'.txs[id].content =
                        [kind |-> "Send", from |-> a, to |-> b,
                         symbol |-> symbol, amount |-> x]
      ]_vars

(***************************************************************************)
(* C5: every transaction id assigned while the stored height is h has      *)
(* id >> HEIGHT_EVENTID_SHIFT = h and is greater than every id assigned    *)
(* in block h - 1.                                                         *)
(***************************************************************************)
C5_IdCarriesHeight ==
    [][ SendOk(ret') =>
          /\ ShiftRight(latest_tid') = get_height(kv)
          /\ \A id \in DOMAIN kv.txs :
                ShiftRight(id) = get_height(kv) - 1 => EventIdLess(id, latest_tid')
      ]_vars

(***************************************************************************)
(* C6: the ids of the logged transactions are pairwise distinct: each new  *)
(* transaction gets an id strictly greater than every id already in the    *)
(* log, so an append adds an entry and never overwrites one.               *)
(***************************************************************************)
C6_IdsStrictlyIncrease ==
    [][ SendOk(ret') =>
          /\ \A id \in DOMAIN kv.txs : EventIdLess(id, latest_tid')
          /\ latest_tid' \notin DOMAIN kv.txs
          /\ Cardinality(DOMAIN kv'.txs) = Cardinality(DOMAIN kv.txs) + 1
      ]_vars

(***************************************************************************)
(* C7: a commit raises the stored height by exactly one, returns           *)
(* retain_height 0 and the root hash of the store as of its second backend *)
(* commit (the whole state, migrations included), and publishes that hash  *)
(* as current_hash; no other operation changes the height or the published *)
(* hash, and info() returns the stored height and the published hash.      *)
(***************************************************************************)
C7_CommitInfo ==
    [][ /\ ret'.op = "abci.commit" =>
              /\ get_height(kv') = get_height(kv) + 1
              /\ ret'.val.retain_height = 0
              /\ committed' = kv'
              /\ ret'.val.hash = root_hash(committed')
              /\ current_hash' = Some(ret'.val.hash)
        /\ ret'.op # "abci.commit" =>
              /\ get_height(kv') = get_height(kv)
              /\ current_hash' = current_hash
        /\ (ret'.op = "abci.info" /\ current_hash # None) =>
              /\ ret'.val.height = get_height(kv)
              /\ ret'.val.hash = Unwrap(current_hash)
      ]_vars

C7_Witness ==
    /\ ret.op = "abci.info"
    /\ current_hash # None
    /\ ret.val.height = 2
    /\ "m1" \in ret.val.hash.migrations
    /\ ret.val.hash.nb_transactions > 0

(***************************************************************************)
(* C9: with an entropy source that yields the same bytes on every attempt, *)
(* storing the same (address, cred_id) again and again on a fresh store    *)
(* succeeds four times, with phrases of 2, 3, 4 and 5 words in that order, *)
(* and fails the fifth time with RecallPhraseGenerationFailed.  The k-th   *)
(* store of the series is the one made when the store holds exactly the    *)
(* k - 1 phrases of the earlier stores of the series.                      *)
(***************************************************************************)
ConstSource(e) == [n \in 1..8 |-> e]

SeriesPhrases(e, k) == { [i \in 1..w |-> e] : w \in 2..(k + 1) }

InSeries(r, e, k) ==
    /\ r.op = "idstore.store"
    /\ r.args.source = ConstSource(e)
    /\ is_public_key(r.args.address)
    /\ cred_id_len_ok(r.args.cred_id)
    /\ DOMAIN kv.phrases = SeriesPhrases(e, k)
    /\ \A p \in DOMAIN kv.phrases : kv.phrases[p] = r.args.cred_id
    /\ DOMAIN kv.addrs \subseteq {r.args.address}

C9_Escalation ==
    [][ \A e \in Entropies, k \in 0..4 :
          InSeries(ret', e, k) =>
              IF k < 4
              THEN /\ ret'.err = ""
                   /\ Len(ret'.val.recall_phrase) = k + 2
              ELSE ret'.err = "RecallPhraseGenerationFailed"
      ]_vars

C9_Witness ==
    /\ ret.op = "idstore.store"
    /\ ret.err = "RecallPhraseGenerationFailed"
    /\ ret.args.source = ConstSource(1)
    /\ DOMAIN kv.phrases = SeriesPhrases(1, 4)
    /\ \A p \in DOMAIN kv.phrases : kv.phrases[p] = ret.args.cred_id

(***************************************************************************)
(* C10: a validated idstore.store ends after at most 8 phrase generations; *)
(* attempt n generates a phrase of 2, 2, 3, 3, 4, 4, 5, 5 words; the call  *)
(* returns the first generated phrase that is not in the recall-phrase     *)
(* index, and fails with RecallPhraseGenerationFailed exactly when all 8   *)
(* generated phrases are in the index.                                     *)
(***************************************************************************)
WordCount == <<2, 2, 3, 3, 4, 4, 5, 5>>

C10_FirstFreePhrase ==
    [][ (ret'.op = "idstore.store" /\ is_public_key(ret'.args.address)
                                   /\ cred_id_len_ok(ret'.args.cred_id)) =>
          LET source == ret'.args.source
              generated(n) == [i \in 1..WordCount[n] |-> source[n]]
              free == { n \in 1..8 : generated(n) \notin DOMAIN kv.phrases }
          IN /\ ret'.val.tries <= 8
             /\ \A n \in 1..8 : phrase_for_try(n, source) = generated(n)
             /\ free # {} =>
                    /\ ret'.err = ""
                    /\ \A n \in free :
                          (\A m \in free : n <= m) =>
                              /\ ret'.val.recall_phrase = generated(n)
                              /\ ret'.val.tries = n
             /\ free = {} <=> ret'.err = "RecallPhraseGenerationFailed"
      ]_vars

C10_Witness ==
    /\ ret.op = "idstore.store"
    /\ ret.err = ""
    /\ ret.val.tries = 2
    /\ ret.args.source # ConstSource(1)
    /\ Len(ret.val.recall_phrase) = 2

(***************************************************************************)
(* C11: idstore.store answers InvalidAddress for an address that is not    *)
(* derived from a public key, InvalidCredentialId for a public-key address *)
(* with a cred_id shorter than 16 or longer than 1023 bytes, and neither   *)
(* of the two for a public-key address with a cred_id of 16 to 1023 bytes; *)
(* a store that returns any error (RecallPhraseGenerationFailed included)  *)
(* leaves the recall-phrase index and the address index as they were.      *)
(***************************************************************************)
C11_StoreValidation ==
    [][ ret'.op = "idstore.store" =>
          LET address == ret'.args.address
              len == ret'.args.cred_id.len
          IN /\ address = "anon" => ret'.err = "InvalidAddress"
             /\ (address # "anon" /\ (len < 16 \/ len > 1023))
                    => ret'.err = "InvalidCredentialId"
             /\ (address # "anon" /\ len >= 16 /\ len <= 1023)
                    => ret'.err \in {"", "RecallPhraseGenerationFailed"}
             /\ ret'.err # "" =>
                    /\ kv'.phrases = kv.phrases
                    /\ kv'.addrs = kv.addrs
                    /\ UNCHANGED <<kv, latest_tid, others>>
      ]_vars

C11_Witness ==
    /\ ret.op = "idstore.store"
    /\ ret.err = "InvalidCredentialId"
    /\ ret.args.cred_id.len = 1024
    /\ NbPhrases = 2
    /\ "a1" \in DOMAIN kv.addrs

(***************************************************************************)
(* C12: a successful idstore.store(address, cred_id) that returned phrase  *)
(* p leaves p and address bound to cred_id; every binding stays as it is   *)
(* until a later store of the same address, and nothing else enters the    *)
(* indices; get_from_recall_phrase and get_from_address return the cred_id *)
(* bound to their argument, and NotFound for an argument that is not       *)
(* bound, which is every phrase or address that was never stored.          *)
(***************************************************************************)
C12_LookupRoundTrip ==
    [][ /\ (ret'.op = "idstore.store" /\ ret'.err = "") =>
              /\ kv'.phrases[ret'.val.recall_phrase] = ret'.args.cred_id
              /\ kv'.addrs[ret'.args.address] = ret'.args.cred_id
              /\ DOMAIN kv'.phrases = DOMAIN kv.phrases \cup {ret'.val.recall_phrase}
              /\ DOMAIN kv'.addrs = DOMAIN kv.addrs \cup {ret'.args.address}
              /\ \A p \in DOMAIN kv.phrases : kv'.phrases[p] = kv.phrases[p]
              /\ \A a \in DOMAIN kv.addrs \ {ret'.args.address} :
                     kv'.addrs[a] = kv.addrs[a]
        /\ ~(ret'.op = "idstore.store" /\ ret'.err = "") =>
              /\ kv'.phrases = kv.phrases
              /\ kv'.addrs = kv.addrs
        /\ ret'.op = "idstore.getFromRecallPhrase" =>
              IF ret'.args \in DOMAIN kv.phrases
              THEN ret'.err = "" /\ ret'.val = kv.phrases[ret'.args]
              ELSE ret'.err = "NotFound"
        /\ ret'.op = "idstore.getFromAddress" =>
              IF ret'.args \in DOMAIN kv.addrs
              THEN ret'.err = "" /\ ret'.val = kv.addrs[ret'.args]
              ELSE ret'.err = "NotFound"
      ]_vars

C12_Witness ==
    /\ ret.op = "idstore.getFromRecallPhrase"
    /\ ret.err = ""
    /\ Len(ret.args) = 3
    /\ ret.val = [len |-> 16]
    /\ kv.addrs["a1"] = [len |-> 16]

(***************************************************************************)
(* Helpers of the list properties: the entries of the log within the id    *)
(* range of a call, what each decodes to, and whether a transaction        *)
(* satisfies the filters of the call.                                      *)
(***************************************************************************)
IsList(r) == r.op = "ledger.list"

IdInRange(r, id) ==
    /\ r.args.filter.id_range.lo # None =>
           ~EventIdLess(id, Unwrap(r.args.filter.id_range.lo))
    /\ r.args.filter.id_range.hi # None =>
           ~EventIdLess(Unwrap(r.args.filter.id_range.hi), id)

InIdRange(r, st) == { id \in DOMAIN st.txs : IdInRange(r, id) }

Decoded(r, st, id) == decode_transaction(st.txs[id], r.args.overflow_checks)

Parties(t) ==
    IF t.content.kind = "Send" THEN {t.content.from, t.content.to}
    ELSE {t.content.account}

Satisfies(r, t) ==
    LET f == r.args.filter
    IN /\ f.account # None => Unwrap(f.account) \cap Parties(t) # {}
       /\ f.kind # None => t.content.kind \in Unwrap(f.kind)
       /\ f.symbol # None => t.content.symbol \in Unwrap(f.symbol)
       /\ f.date_range.lo # None => Unwrap(f.date_range.lo).secs <= t.time.secs
       /\ f.date_range.hi # None => t.time.secs <= Unwrap(f.date_range.hi).secs

Matching(r, st) ==
    { id \in InIdRange(r, st) :
        /\ Decoded(r, st, id).err = ""
        /\ Satisfies(r, Decoded(r, st, id).val) }

KeyOf(t) == [hi |-> 0, lo |-> t.id]

Before(r, x, y) ==
    IF r.args.order = Some("Descending") THEN EventIdLess(y, x)
    ELSE EventIdLess(x, y)

(***************************************************************************)
(* C13: a ledger.list that returns transactions returns at most 100 of     *)
(* them, and at most count when count is given, whatever the log holds;    *)
(* the nb_transactions it returns is the number of transactions logged,    *)
(* whatever the filters and the count.                                     *)
(***************************************************************************)
C13_ListCount ==
    [][ (IsList(ret') /\ ret'.err = "") =>
          /\ Len(ret'.val.transactions) <= 100
          /\ ret'.args.count # None =>
                 Len(ret'.val.transactions) <= Unwrap(ret'.args.count)
          /\ ret'.val.nb_transactions = nb_transactions(kv)
          /\ ret'.val.nb_transactions = Cardinality(DOMAIN kv.txs)
      ]_vars

C13_Witness ==
    /\ IsList(ret)
    /\ ret.err = ""
    /\ ret.args.count = Some(101)
    /\ ret.args.filter.account = Some({"a1"})
    /\ Len(ret.val.transactions) = 100
    /\ ret.val.nb_transactions = 101

(***************************************************************************)
(* C14: when every entry within filter.id_range decodes, ledger.list       *)
(* succeeds; and a ledger.list that succeeds returns, in id order          *)
(* (descending when order says so, ascending otherwise), the first count   *)
(* (clamped to 100) of the transactions within filter.id_range that        *)
(* satisfy every supplied filter: a listed account is the from, the to or  *)
(* the account of the transaction, its kind is in the kind list, its       *)
(* symbol is in the symbol list, its time is within the date range.  No    *)
(* returned transaction violates a filter and no matching transaction that *)
(* comes before a returned one is left out.                                *)
(***************************************************************************)
C14_ListFilters ==
    [][ IsList(ret') =>
          LET r == ret'.val.transactions
              matching == Matching(ret', kv)
              clamped == IF ret'.args.count = None THEN 100
                         ELSE IF Unwrap(ret'.args.count) > 100 THEN 100
                         ELSE Unwrap(ret'.args.count)
          IN /\ (\A id \in InIdRange(ret', kv) : Decoded(ret', kv, id).err = "")
                    => ret'.err = ""
             /\ ret'.err = "" =>
                    /\ Len(r) = IF clamped < Cardinality(matching) THEN clamped
                                ELSE Cardinality(matching)
                    /\ \A i \in 1..Len(r) :
                           /\ KeyOf(r[i]) \in DOMAIN kv.txs
                           /\ IdInRange(ret', KeyOf(r[i]))
                           /\ Decoded(ret', kv, KeyOf(r[i])) =
                                  [err |-> "", val |-> r[i],
                                   pos |-> Len(kv.txs[KeyOf(r[i])]) + 1]
                           /\ Satisfies(ret', r[i])
                    /\ \A i \in 1..(Len(r) - 1) :
                           Before(ret', KeyOf(r[i]), KeyOf(r[i + 1]))
                    /\ \A id \in matching :
                           (Len(r) > 0 /\ Before(ret', id, KeyOf(r[Len(r)])))
                              => \E i \in 1..Len(r) : KeyOf(r[i]) = id
      ]_vars

C14_Witness ==
    /\ IsList(ret)
    /\ ret.err = ""
    /\ ret.args.order = Some("Descending")
    /\ ret.args.filter.account = Some({"a2", "anon"})
    /\ ret.args.filter.kind = Some({"Send"})
    /\ Cardinality(DOMAIN kv.txs) = 3
    /\ Len(ret.val.transactions) = 2
    /\ ret.val.transactions[1].id = 3
    /\ ret.val.transactions[2].id = 1

(***************************************************************************)
(* C15: whenever an entry of the log within the requested id range does    *)
(* not decode, ledger.list fails with DeserializationError and returns no  *)
(* transactions, whatever the filters, the order and the count.            *)
(***************************************************************************)
C15_ListDecodeError ==
    [][ IsList(ret') =>
          ((\E id \in InIdRange(ret', kv) : Decoded(ret', kv, id).err # "")
              => ret'.err = "DeserializationError")
      ]_vars

(***************************************************************************)
(* C16: decoding the encoding of any transaction (Send, Mint or Burn, any  *)
(* id, time and amount) gives the transaction back; encoding what a buffer *)
(* decoded to gives the buffer back; and the content is encoded as a       *)
(* definite-length array of 5 items for Send and 4 for Mint and Burn whose *)
(* first item is the kind byte (Send 0, Mint 1, Burn 2).                   *)
(***************************************************************************)
C16_RoundTrip ==
    [][ /\ (ret.op = "encode" /\ ret'.op = "decode" /\ ret'.args.buf = ret.val) =>
              /\ ret'.err = ""
              /\ ret'.val = ret.args
        /\ (ret.op = "decode" /\ ret.err = "" /\ ret'.op = "encode"
                              /\ ret'.args = ret.val) =>
              ret'.val = ret.args.buf
        /\ ret'.op = "encode" =>
              LET kind == ret'.args.content.kind
              IN /\ ret'.val[8] = Array(IF kind = "Send" THEN 5 ELSE 4)
                 /\ ret'.val[9] = U(CASE kind = "Send" -> 0 [] kind = "Mint" -> 1
                                       [] kind = "Burn" -> 2)
      ]_vars

(***************************************************************************)
(* C17: decoding a TransactionContent returns a decode error, and does not *)
(* panic, wrap around or return a value, whenever the kind byte is not 0,  *)
(* 1 or 2 or the declared array length is not the length of the variant    *)
(* (5 for Send, 4 for Mint and Burn), smaller declared lengths included.   *)
(***************************************************************************)
C17_ContentDecodeErrors ==
    [][ ret'.op = "decode_content" =>
          LET header == ret'.args.buf[1]
              kind == ret'.args.buf[2].v
          IN (\/ kind \notin {0, 1, 2}
              \/ /\ header.t = "array"
                 /\ header.v # (IF kind = 0 THEN 5 ELSE 4))
                => ret'.err = "DecodeError"
      ]_vars

(***************************************************************************)
(* C18: in every reachable state no balance key holds a zero amount, after *)
(* a send that drains the payer and after a send of amount 0 to an account *)
(* without a balance included: an (address, symbol) entry is stored        *)
(* exactly when the balance is not zero, and ledger.balance leaves zero    *)
(* balances out of the map it returns.                                     *)
(***************************************************************************)
C18_NoZeroBalanceKeys ==
    /\ \A k \in DOMAIN kv.balances : kv.balances[k] # 0
    /\ \A k \in DOMAIN committed.balances : committed.balances[k] # 0
    /\ ret.op = "ledger.balance" =>
           \A s \in DOMAIN ret.val : ret.val[s] # 0

(***************************************************************************)
(* C19: constructing the ledger from an initial state that carries an      *)
(* expected hash succeeds exactly when the hex encoding of the root hash   *)
(* after genesis equals the supplied text; on a mismatch it fails with     *)
(* InvalidInitialState carrying the expected and the actual text and no    *)
(* ledger exists; on success the height reported is 0.                     *)
(***************************************************************************)
C19_GenesisHashCheck ==
    [][ (ret'.op = "new" /\ ret'.args.hash # None) =>
          LET supplied == Unwrap(ret'.args.hash)
              nonzero == { k \in DOMAIN ret'.args.initial : ret'.args.initial[k] # 0 }
              post == [balances |-> [k \in nonzero |-> ret'.args.initial[k]],
                       txs |-> EmptyMap, nb_transactions |-> 0, height |-> 0,
                       phrases |-> EmptyMap, addrs |-> EmptyMap,
                       migrations |-> {}, attributes |-> EmptyMap]
              equal == /\ supplied.digits = root_hash(post)
                       /\ ~supplied.upper
          IN /\ ret'.err = "" <=> equal
             /\ ret'.err # "" =>
                    /\ ret'.err = "InvalidInitialState"
                    /\ ret'.val.expected = supplied
                    /\ ret'.val.actual = [digits |-> root_hash(post), upper |-> FALSE]
                    /\ UNCHANGED <<kv, committed, latest_tid, others>>
             /\ ret'.err = "" =>
                    /\ committed' = post
                    /\ kv' = post
                    /\ get_height(kv') = 0
                    /\ ret'.val.height = 0
      ]_vars

C19_Witness ==
    /\ ret.op = "new"
    /\ ret.err = "InvalidInitialState"
    /\ ret.args.hash # None
    /\ ret.val.expected.digits = ret.val.actual.digits
    /\ ret.val.expected.upper
    /\ ret.args.initial[<<"a1", "FBT">>] = 0

(***************************************************************************)
(* C20: one commit increments the height, commits the backend, runs the    *)
(* migrations registered for the new height, commits the backend again and *)
(* then reads and publishes the root hash: the migrations of the new       *)
(* height, and no others, have run; what they wrote is part of the state   *)
(* whose hash the commit returns and publishes; and the database a         *)
(* migration found already held the new height and the transactions of the *)
(* block.                                                                  *)
(***************************************************************************)
C20_CommitOrder ==
    [][ ret'.op = "abci.commit" =>
          LET h == get_height(kv) + 1
              due == { m.name : m \in { x \in AllMigrations : x.block_height = h } }
          IN /\ get_height(kv') = h
             /\ kv'.migrations = kv.migrations \cup due
             /\ active_migrations' = active_migrations \cup due
             /\ committed' = kv'
             /\ ret'.val.hash = root_hash(committed')
             /\ due \subseteq ret'.val.hash.migrations
             /\ current_hash' = Some(ret'.val.hash)
             /\ \A n \in due :
                    /\ n \in DOMAIN ret'.val.hash.attributes
                    /\ kv'.attributes[n].height = h
                    /\ kv'.attributes[n].nb_transactions = nb_transactions(kv)
             /\ \A n \in DOMAIN kv.attributes \ due :
                    kv'.attributes[n] = kv.attributes[n]
      ]_vars

C20_Witness ==
    /\ ret.op = "abci.commit"
    /\ get_height(kv) = 2
    /\ "m1" \in kv.migrations
    /\ "m1" \in ret.val.hash.migrations
    /\ kv.attributes["m1"] = [height |-> 2, nb_transactions |-> 2]
    /\ committed.nb_transactions = 2

(* A SystemTime, written as its seconds, is the time the u64 gives.        *)
SameTime(system_time, secs) == secs.top = 0 /\ secs.rest = system_time

(***************************************************************************)
(* C21: a begin_block whose info.time is present makes that time the       *)
(* stored block time; one whose info.time is absent changes nothing of the *)
(* state; no other operation changes the block time; and the transaction a *)
(* send records carries the stored block time.  Together: a recorded       *)
(* transaction carries the time of the most recent begin_block that gave   *)
(* one.                                                                    *)
(***************************************************************************)
C21_BlockTime ==
    [][ /\ (ret'.op = "abci.begin_block" /\ ret'.args.time # None) =>
              /\ ret'.err = ""
              /\ current_time' # None
              /\ SameTime(Unwrap(current_time'), Unwrap(ret'.args.time))
              /\ UNCHANGED <<kv, committed, latest_tid, current_hash,
                             active_migrations>>
        /\ (ret'.op = "abci.begin_block" /\ ret'.args.time = None) =>
              /\ ret'.err = ""
              /\ UNCHANGED <<kv, committed, latest_tid, current_time,
                             current_hash, active_migrations>>
        /\ ret'.op # "abci.begin_block" => current_time' = current_time
        /\ SendOk(ret') =>
              /\ latest_tid' \in DOMAIN kv'.txs
              /\ kv'.txs[latest_tid'].time = current_time
      ]_vars

(***************************************************************************)
(* C22: for all amounts a and b, a -= b leaves a - b when a > b and zero   *)
(* when a <= b, never an error and never a negative value; a += b leaves   *)
(* the exact sum, which is not below either operand.                       *)
(***************************************************************************)
C22_SaturatingArithmetic ==
    [][ /\ ret'.op = "sub_assign" =>
              /\ ret'.err = ""
              /\ ret'.val \in Nat
              /\ ret'.args.self > ret'.args.rhs =>
                     ret'.val + ret'.args.rhs = ret'.args.self
              /\ ret'.args.self <= ret'.args.rhs => ret'.val = 0
        /\ ret'.op = "add_assign" =>
              /\ ret'.err = ""
              /\ ret'.val \in Nat
              /\ ret'.val - ret'.args.rhs = ret'.args.self
              /\ ret'.val >= ret'.args.self
              /\ ret'.val >= ret'.args.rhs
      ]_vars

C22_Witness ==
    /\ ret.op = "sub_assign"
    /\ ret.args = [self |-> 255, rhs |-> 65536]
    /\ ret.val = 0

(***************************************************************************)
(* C23: decoding the encoding of an amount gives the amount back; the      *)
(* encoding is the bignum tag and the big-endian bytes of the amount with  *)
(* no leading zero byte, zero being the single byte 0; and encoding what a *)
(* well-formed encoded amount decoded to gives that encoding back.         *)
(***************************************************************************)
C23_AmountRoundTrip ==
    [][ /\ (ret.op = "encode_amount" /\ ret'.op = "decode_amount"
                                     /\ ret'.args = ret.val) =>
              /\ ret'.err = ""
              /\ ret'.val = ret.args
        /\ ret'.op = "encode_amount" =>
              /\ Len(ret'.val) = 2
              /\ ret'.val[1] = Tag(TagPosBignum)
              /\ ret'.val[2].t = "bytes"
              /\ Len(ret'.val[2].v) >= 1
              /\ (ret'.val[2].v[1] = 0) = (ret'.args = 0)
              /\ ret'.args = 0 => ret'.val[2].v = <<0>>
        /\ (ret.op = "decode_amount" /\ ret.err = "" /\ ret'.op = "encode_amount"
                                     /\ ret'.args = ret.val) =>
              ret'.val = ret.args
      ]_vars

(***************************************************************************)
(* C24: the recall-phrase index is write-once.  No step removes a stored   *)
(* phrase or changes the cred_id it maps to; a successful store returns a  *)
(* phrase that was not stored before and adds exactly that phrase, mapped  *)
(* to the cred_id of the call; and getFromRecallPhrase returns the cred_id *)
(* stored with the phrase.  Hence every stored phrase maps, in every       *)
(* reachable state, to the cred_id of the store call that returned it.     *)
(***************************************************************************)
C24_PhrasesWriteOnce ==
    [][ /\ \A p \in DOMAIN kv.phrases :
              /\ p \in DOMAIN kv'.phrases
              /\ kv'.phrases[p] = kv.phrases[p]
        /\ (ret'.op = "idstore.store" /\ ret'.err = "") =>
              /\ ret'.val.recall_phrase \notin DOMAIN kv.phrases
              /\ DOMAIN kv'.phrases =
                     DOMAIN kv.phrases \cup {ret'.val.recall_phrase}
              /\ kv'.phrases[ret'.val.recall_phrase] = ret'.args.cred_id
        /\ ~(ret'.op = "idstore.store" /\ ret'.err = "") =>
              DOMAIN kv'.phrases = DOMAIN kv.phrases
        /\ ret'.op = "idstore.getFromRecallPhrase" =>
              IF ret'.args \in DOMAIN kv.phrases
              THEN ret'.err = "" /\ ret'.val = kv.phrases[ret'.args]
              ELSE ret'.err = "NotFound"
      ]_vars

C24_Witness ==
    /\ ret.op = "idstore.getFromRecallPhrase"
    /\ ret.args = generate_recall_phrase(2, 1)
    /\ ret.err = ""
    /\ ret.val = [len |-> 16]
    /\ \E p \in DOMAIN kv.phrases : kv.phrases[p] = [len |-> 1023]
    /\ Cardinality(DOMAIN kv.phrases) >= 3

(* What ABCI info() reports in the current state.                          *)
InfoReport == [height |-> get_height(kv), hash |-> hash]

(***************************************************************************)
(* C25: info() reports the height and the hash of the storage, and what it *)
(* reports changes only at commit: every other operation (begin_block, a   *)
(* send that succeeds or is rejected, idstore.store, the idstore lookups   *)
(* and the queries info, balance, transactions and list) leaves the        *)
(* reported height and hash as they were, a commit raises the height, and  *)
(* no step lowers it.                                                      *)
(***************************************************************************)
C25_InfoChangesAtCommit ==
    [][ /\ ret'.op = "abci.info" => ret'.val = InfoReport
        /\ ret'.op # "abci.commit" => InfoReport' = InfoReport
        /\ ret'.op = "abci.commit" => InfoReport'.height > InfoReport.height
        /\ InfoReport'.height >= InfoReport.height
      ]_vars

C25_Witness ==
    /\ SendOk(ret)
    /\ InfoReport.height = 1
    /\ current_hash # None
    /\ InfoReport.hash = Unwrap(current_hash)
    /\ InfoReport.hash # root_hash(kv)
    /\ InfoReport.hash.nb_transactions < nb_transactions(kv)
====
